---- MODULE Spec2Model ----
(***************************************************************************)
(* pillowcase: an HTTP service that stores uploaded images in one flat     *)
(* directory under a generated identifier and serves them back, plain,     *)
(* rotated or resized.  The model covers routes/image_controller.py and    *)
(* routes/image_model.py: the identifier generator, the PILOpen context    *)
(* manager, the upload handler and the three fetch handlers.               *)
(*                                                                         *)
(* A file name is a sequence of tokens, <<"0", "1", ".", "png">>; an       *)
(* image is its size and its four corner pixels (top-left, top-right,      *)
(* bottom-right, bottom-left), which is what the quarter-turn transposes   *)
(* permute.                                                                *)
(***************************************************************************)
EXTENDS Integers, Sequences, FiniteSets, TLC

VARIABLES
    files,      \* the storage directory: file name -> file data
    uploads,    \* per upload request: how far post_image got and with what
    last        \* what the handler step that ran last did and answered

vars == <<files, uploads, last>>

(***************************************************************************)
(* Bounds                                                                  *)
(***************************************************************************)
NumClients == 2     \* upload requests in flight at once
MaxDim == 3         \* widths and heights 1..MaxDim (plus the sample sizes)
MaxTurns == 2       \* degrees range over 90 * (-MaxTurns .. 2 * MaxTurns)

Clients == 1..NumClients

Abs(x) == IF x < 0 THEN -x ELSE x
Max(a, b) == IF a >= b THEN a ELSE b

(***************************************************************************)
(* Images and file data                                                    *)
(***************************************************************************)
NoImage == [w |-> 0, h |-> 0, px |-> <<>>]
ImgA == [w |-> 2, h |-> 1, px |-> <<"p", "q", "r", "s">>]
ImgB == [w |-> 1, h |-> 2, px |-> <<"t", "u", "v", "x">>]
Raster(w, h) == [w |-> w, h |-> h, px |-> <<"p", "q", "r", "s">>]

\* kind "ok": decodes; "junk": not identifiable as an image (an empty or
\* truncated-at-zero file included); "valerr" / "oserr": the header is
\* recognised, so Image.open succeeds, but loading the pixel data raises
\* ValueError / OSError.
Ok(img) == [kind |-> "ok", img |-> img]
Junk == [kind |-> "junk", img |-> NoImage]
LazyValueError(img) == [kind |-> "valerr", img |-> img]
LazyOSError(img) == [kind |-> "oserr", img |-> img]

(***************************************************************************)
(* Names                                                                   *)
(***************************************************************************)
Bit(b) == IF b = 0 THEN "0" ELSE "1"

\* uuid.uuid4(): a random value; str() renders it as fixed-width digits.
Uuids == 0..3
UuidStr(u) == <<Bit(u \div 2), Bit(u % 2)>>

\* identifiers a client may put in the path of a fetch request
ReqIds == {<<"0">>, <<"1">>} \cup {UuidStr(u) : u \in Uuids}

PngName(id) == id \o <<".", "png">>

IsPrefix(p, s) == Len(p) <= Len(s) /\ SubSeq(s, 1, Len(p)) = p

\* str.rindex('.')
RIndexDot(s) == CHOOSE i \in 1..Len(s) : s[i] = "." /\ \A j \in (i + 1)..Len(s) : s[j] # "."

\* filename[:filename.rindex('.')]
StripExt(filename) == SubSeq(filename, 1, RIndexDot(filename) - 1)

\* glob of "<prefix>*" in the directory
Glob(dir, prefix) == {n \in DOMAIN dir : IsPrefix(prefix, n)}

(***************************************************************************)
(* Identifier Generator                                                    *)
(***************************************************************************)
\* What get_unique_image_id can return: it redraws while the glob of
\* "<directory>/<id>*" is non-empty, so it returns a drawn value that no
\* file name starts with.  With every value taken the loop never ends.
get_unique_image_id_nocheck(dir) == Uuids

get_unique_image_id(dir) == {u \in Uuids : Glob(dir, UuidStr(u)) = {}}

(***************************************************************************)
(* Image Store Resolver: PILOpen                                           *)
(***************************************************************************)
\* Image.open(path) returns a handle: the file is there and its header is
\* recognised.  Otherwise FileNotFoundError or UnidentifiedImageError.
ImageOpens(dir, name) == name \in DOMAIN dir /\ dir[name].kind # "junk"

\* PILOpen.__init__: the names of the files self.image may be opened on;
\* empty means ImageError.  The fallback walks the glob in directory order,
\* which is any order, and keeps the first file that opens.
PILOpen(dir, filename) ==
    IF ImageOpens(dir, filename)
    THEN {filename}
    ELSE {n \in Glob(dir, StripExt(filename)) : ImageOpens(dir, n)}

\* Loading the pixel data of an opened handle (transpose, resize, thumbnail
\* and save all load it): the exception raised, or "none".
LoadError(data) ==
    CASE data.kind = "valerr" -> "ValueError"
      [] data.kind = "oserr" -> "OSError"
      [] OTHER -> "none"

\* PILOpen.__exit__(exc_type, exc_val, exc_tb) for the exception the body
\* raised: a ValueError is logged and suppressed by returning True before
\* the close; otherwise the image is closed and the exception, if any,
\* propagates.
PILExit(exc) ==
    IF exc = "ValueError"
    THEN [suppressed |-> TRUE, closed |-> FALSE]
    ELSE [suppressed |-> FALSE, closed |-> TRUE]

(***************************************************************************)
(* Transform Engine                                                        *)
(***************************************************************************)
\* Image.transpose(ROTATE_90 / 180 / 270): counter-clockwise quarter turns
Rotate90(img) == [w |-> img.h, h |-> img.w,
                  px |-> <<img.px[2], img.px[3], img.px[4], img.px[1]>>]
Rotate180(img) == [w |-> img.w, h |-> img.h,
                   px |-> <<img.px[3], img.px[4], img.px[1], img.px[2]>>]
Rotate270(img) == [w |-> img.h, h |-> img.w,
                   px |-> <<img.px[4], img.px[1], img.px[2], img.px[3]>>]

\* Query(default="R"): an absent direction is "R"
QueryDirection(direction) == IF direction = "absent" THEN "R" ELSE direction

\* degrees %= 360; if direction not in {'L', 'l'}: degrees = abs(360 - degrees)
NormalizedDegrees_noreverse(direction, degrees) == degrees % 360

NormalizedDegrees(direction, degrees) ==
    LET d == degrees % 360
    IN IF direction \notin {"L", "l"} THEN Abs(360 - d) ELSE d

\* match degrees: case 90 / case 180 / case 270, and no other case
Transposed_else270(image, degrees) ==
    CASE degrees = 90 -> Rotate90(image)
      [] degrees = 180 -> Rotate180(image)
      [] OTHER -> Rotate270(image)

Transposed(image, degrees) ==
    CASE degrees = 90 -> Rotate90(image)
      [] degrees = 180 -> Rotate180(image)
      [] degrees = 270 -> Rotate270(image)
      [] OTHER -> image

\* Image.resize((width, height)): a new image of exactly that size
Resize(image, width, height) == [image EXCEPT !.w = width, !.h = height]

\* Image.thumbnail((x, y)), in place: unchanged when the box holds the
\* image; otherwise the box is shrunk on one side to the image's aspect
\* ratio (of floor and ceiling the one nearer the ratio, floor on a tie, at
\* least 1) and the image is resized to it.  Ratios are compared by cross
\* multiplication.
Thumbnail(image, x, y) ==
    IF x >= image.w /\ y >= image.h
    THEN image
    ELSE IF x * image.h >= y * image.w
         THEN LET lo == (y * image.w) \div image.h
                  hi == (y * image.w + image.h - 1) \div image.h
                  keyLo == Abs(image.w * y - lo * image.h)
                  keyHi == Abs(image.w * y - hi * image.h)
                  nx == IF keyLo <= keyHi THEN lo ELSE hi
              IN Resize(image, Max(nx, 1), y)
         ELSE LET lo == (x * image.h) \div image.w
                  hi == (x * image.h + image.w - 1) \div image.w
                  loFirst == \/ lo = 0
                             \/ Abs(image.w * lo - x * image.h) * hi
                                    <= Abs(image.w * hi - x * image.h) * lo
                  ny == IF loFirst THEN lo ELSE hi
              IN Resize(image, x, Max(ny, 1))

\* the body of get_resized_image's with block
ResizedImage_inverted(image, lock_aspect_ratio, width, height) ==
    IF lock_aspect_ratio
    THEN Resize(image, width, height)
    ELSE Thumbnail(image, width, height)

ResizedImage(image, lock_aspect_ratio, width, height) ==
    IF ~lock_aspect_ratio
    THEN Resize(image, width, height)
    ELSE Thumbnail(image, width, height)

(***************************************************************************)
(* Response Encoder                                                        *)
(***************************************************************************)
\* ImageResponse: the image saved as PNG into a buffer, the buffer's bytes
\* as the body.  PNG is lossless: the body decodes to the same raster.
ImageResponse(image) == [media_type |-> "image/png", image |-> image]

NoBody == [media_type |-> "", image |-> NoImage]

(***************************************************************************)
(* Requests                                                                *)
(***************************************************************************)
\* status 0: the handler returned None, no response was built
NoRequest ==
    [op |-> "none", id |-> <<>>, status |-> 0, body |-> NoBody, file |-> <<>>,
     opened |-> FALSE, closed |-> FALSE, exc |-> "none",
     direction |-> "", degrees |-> 0, width |-> 0, height |-> 0, lock |-> FALSE]

ImagePng == <<"image", "/", "png">>
TextPlain == <<"text", "/", "plain">>

\* the multipart file of an upload request: content type and content.
\* "toolarge" trips the decompression-bomb guard; "unsavable" opens but its
\* save as PNG raises (pixel data that does not load, a mode PNG cannot
\* take, a full disk).
Streams ==
    {[present |-> FALSE, ctype |-> <<>>, data |-> Junk],
     [present |-> TRUE, ctype |-> TextPlain, data |-> Ok(ImgA)],
     [present |-> TRUE, ctype |-> ImagePng, data |-> Junk],
     [present |-> TRUE, ctype |-> ImagePng, data |-> [kind |-> "toolarge", img |-> NoImage]],
     [present |-> TRUE, ctype |-> ImagePng, data |-> [kind |-> "unsavable", img |-> ImgA]],
     [present |-> TRUE, ctype |-> ImagePng, data |-> Ok(ImgA)],
     [present |-> TRUE, ctype |-> ImagePng, data |-> Ok(ImgB)]}

\* id -1: no identifier was generated
Idle == [pc |-> "idle", id |-> -1, data |-> Junk, status |-> 0]

\* validate_image_file_request: the status it raises, 0 when it passes
validate_image_file_request(image_file) ==
    IF ~image_file.present THEN 400
    ELSE IF ~IsPrefix(<<"image", "/">>, image_file.ctype) THEN 415
    ELSE 0

\* post_image up to the return of get_unique_image_id: validation, then
\* Image.open on the byte stream.  An unidentified stream is a 400; a
\* decompression bomb is a 400 when the warning is raised and caught, and
\* an unhandled DecompressionBombError otherwise.  A request that fails
\* here leaves nothing behind.
PostImageOpen(c, image_file) ==
    /\ uploads[c].pc = "idle"
    /\ LET invalid == validate_image_file_request(image_file)
           Failed(st) ==
               /\ last' = [NoRequest EXCEPT !.op = "post_image", !.status = st]
               /\ UNCHANGED uploads
       IN \/ /\ invalid # 0
             /\ Failed(invalid)
          \/ /\ invalid = 0
             /\ image_file.data.kind = "junk"
             /\ Failed(400)
          \/ /\ invalid = 0
             /\ image_file.data.kind = "toolarge"
             /\ \E st \in {400, 500} : Failed(st)
          \/ /\ invalid = 0
             /\ image_file.data.kind \notin {"junk", "toolarge"}
             /\ \E image_id \in get_unique_image_id(files) :
                    /\ uploads' = [uploads EXCEPT ![c] =
                           [pc |-> "saving", id |-> image_id, data |-> image_file.data,
                            status |-> 0]]
                    /\ last' = [NoRequest EXCEPT !.op = "get_unique_image_id",
                                                 !.id = UuidStr(image_id)]
    /\ UNCHANGED files

\* post_image from image_file.save(f"{image_directory}/{image_id}.png") on.
\* save loads the pixel data, opens the target for writing (truncating a
\* file that is there) and runs the PNG encoder.  When it raises, the
\* target is as the library left it: untouched (the error came before the
\* target was opened, or the library removed the file it had created) or
\* empty.  The handler itself removes nothing.
PostImageSave(c) ==
    /\ uploads[c].pc = "saving"
    /\ LET u == uploads[c]
           name == PngName(UuidStr(u.id))
           Done(st) ==
               /\ uploads' = [uploads EXCEPT ![c].pc = "done", ![c].status = st]
               /\ last' = [NoRequest EXCEPT !.op = "post_image", !.status = st,
                                            !.id = UuidStr(u.id)]
           Written(data) == [n \in DOMAIN files \cup {name} |->
                                IF n = name THEN data ELSE files[n]]
       IN \/ /\ u.data.kind = "ok"
             /\ files' = Written(Ok(u.data.img))
             /\ Done(200)
          \/ /\ u.data.kind = "unsavable"
             /\ files' \in {files, Written(Junk)}
             /\ Done(500)

\* The with block of a fetch handler around PILOpen: no file opens and the
\* ImageError becomes a 404, or the body runs on the opened file and
\* __exit__ decides what leaves the block.
Fetched(req, name, transformed) ==
    LET exc == LoadError(files[name])
        exit == PILExit(exc)
    IN [req EXCEPT !.file = name, !.opened = TRUE, !.closed = exit.closed, !.exc = exc,
                   !.status = IF exc = "none" THEN 200
                              ELSE IF exit.suppressed THEN 0 ELSE 500,
                   !.body = IF exc = "none" THEN ImageResponse(transformed) ELSE NoBody]

NotFound(req) == [req EXCEPT !.status = 404]

get_image(image_id) ==
    /\ LET req == [NoRequest EXCEPT !.op = "get_image", !.id = image_id]
           found == PILOpen(files, PngName(image_id))
       IN \/ found = {} /\ last' = NotFound(req)
          \/ \E n \in found : last' = Fetched(req, n, files[n].img)
    /\ UNCHANGED <<files, uploads>>

get_rotated_image(image_id, direction, degrees) ==
    /\ LET req == [NoRequest EXCEPT !.op = "get_rotated_image", !.id = image_id,
                                    !.direction = direction, !.degrees = degrees]
           found == PILOpen(files, PngName(image_id))
           turn == NormalizedDegrees(QueryDirection(direction), degrees)
       IN \/ found = {} /\ last' = NotFound(req)
          \/ \E n \in found : last' = Fetched(req, n, Transposed(files[n].img, turn))
    /\ UNCHANGED <<files, uploads>>

get_resized_image_saving(image_id, lock_aspect_ratio, width, height) ==
    LET req == [NoRequest EXCEPT !.op = "get_resized_image", !.id = image_id,
                                 !.lock = lock_aspect_ratio,
                                 !.width = width, !.height = height]
        found == PILOpen(files, PngName(image_id))
    IN \/ found = {} /\ last' = NotFound(req) /\ UNCHANGED <<files, uploads>>
       \/ \E n \in found :
              LET image == ResizedImage(files[n].img, lock_aspect_ratio, width, height)
              IN /\ last' = Fetched(req, n, image)
                 /\ files' = [files EXCEPT ![n].img = image]
                 /\ UNCHANGED uploads

get_resized_image(image_id, lock_aspect_ratio, width, height) ==
    /\ LET req == [NoRequest EXCEPT !.op = "get_resized_image", !.id = image_id,
                                    !.lock = lock_aspect_ratio,
                                    !.width = width, !.height = height]
           found == PILOpen(files, PngName(image_id))
       IN \/ found = {} /\ last' = NotFound(req)
          \/ \E n \in found :
                 last' = Fetched(req, n, ResizedImage(files[n].img, lock_aspect_ratio,
                                                      width, height))
    /\ UNCHANGED <<files, uploads>>

(***************************************************************************)
(* The service: uploads in flight against one directory, and fetches       *)
(***************************************************************************)
EmptyDir == [n \in {} |-> Junk]

\* a directory with files placed by hand under other extensions
OldDir ==
    [n \in {<<"0", ".", "jpg">>, <<"1", "1", ".", "jpg">>} |-> Ok(ImgB)]

Directions == {"R", "L", "l", "absent"}
Degrees == {90 * k : k \in (0 - MaxTurns)..(2 * MaxTurns)}
Sizes == 1..MaxDim

Init ==
    /\ files \in {EmptyDir, OldDir}
    /\ uploads = [c \in Clients |-> Idle]
    /\ last = NoRequest

Next ==
    \/ \E c \in Clients, image_file \in Streams : PostImageOpen(c, image_file)
    \/ \E c \in Clients : PostImageSave(c)
    \/ \E image_id \in ReqIds : get_image(image_id)

Spec == Init /\ [][Next]_vars

(***************************************************************************)
(* The fetch handlers alone, over stored images of every size              *)
(***************************************************************************)
RequestSizes == Sizes \cup {50}

\* the identifiers fetched: two stored names and the two leading digits
FetchIds == {<<"0">>, <<"1">>, <<"0", "0">>, <<"1", "0">>}

\* one stored image under the name 00.png
StoredDir(image) == [n \in {PngName(<<"0", "0">>)} |-> Ok(image)]

\* files whose pixel data does not load, a file that is no image beside a
\* copy under another extension, and two files under one leading digit
MixedDir ==
    LET broken == PngName(<<"0", "0">>)
        truncated == PngName(<<"0", "1">>)
        empty == PngName(<<"1", "0">>)
        copy == <<"1", "0", ".", "jpg">>
        other == <<"1", "1", ".", "jpg">>
    IN [n \in {broken, truncated, empty, copy, other} |->
           CASE n = broken -> LazyValueError(ImgA)
             [] n = truncated -> LazyOSError(ImgA)
             [] n = empty -> Junk
             [] n = copy -> Ok(ImgB)
             [] OTHER -> Ok(ImgA)]

FetchDirs ==
    {StoredDir(Raster(w, h)) : w \in Sizes, h \in Sizes}
        \cup {StoredDir(Raster(200, 100)), MixedDir, EmptyDir}

FetchInit ==
    /\ files \in FetchDirs
    /\ uploads = [c \in Clients |-> Idle]
    /\ last = NoRequest

FetchNext ==
    \/ \E image_id \in FetchIds : get_image(image_id)
    \/ \E image_id \in FetchIds, direction \in Directions, degrees \in Degrees :
           get_rotated_image(image_id, direction, degrees)
    \/ \E image_id \in FetchIds, lock \in BOOLEAN,
          width \in RequestSizes, height \in RequestSizes :
           get_resized_image(image_id, lock, width, height)

FetchSpec == FetchInit /\ [][FetchNext]_vars

FetchOps == {"get_image", "get_rotated_image", "get_resized_image"}

\* the image in the file the last fetch opened
Stored == files[last.file].img

(***************************************************************************)
(* Properties                                                              *)
(***************************************************************************)

\* C1: a fetch that opened a handle has closed it when the handler returns,
\* whatever the body raised.
C1_HandleClosedOnEveryExit ==
    (last.op \in FetchOps /\ last.opened) => last.closed

\* C2: when no file's name without its extension equals the requested
\* identifier, the fetch opens nothing and answers 404.
C2_NotFoundUnlessStored ==
    (last.op \in FetchOps /\ ~\E n \in DOMAIN files : StripExt(n) = last.id)
        => (last.status = 404 /\ ~last.opened)

\* C3: an upload step that ends in success adds exactly the file <id>.png
\* and nothing else; a step that ends in a failure, and the step that only
\* generates the identifier, leave the set of files as it was.
C3_UploadWritesOnlyOnSuccess ==
    [][/\ (last'.op = "post_image" /\ last'.status = 200)
            => /\ PngName(last'.id) \notin DOMAIN files
               /\ DOMAIN files' = DOMAIN files \cup {PngName(last'.id)}
       /\ (last'.op = "post_image" /\ last'.status # 200)
            => DOMAIN files' = DOMAIN files
       /\ last'.op = "get_unique_image_id" => DOMAIN files' = DOMAIN files]_vars

\* C4 as stated: an identifier the generator returns is a prefix of no file
\* name in the directory and differs from every identifier it returned
\* before.
C4_AllGeneratedDiffer ==
    [][last'.op = "get_unique_image_id"
         => /\ \A n \in DOMAIN files : ~IsPrefix(last'.id, n)
            /\ \A c \in Clients :
                   uploads[c].id # -1 => UuidStr(uploads[c].id) # last'.id]_vars

\* C4 as amended: an identifier the generator returns is a prefix of no file
\* name in the directory at that time, and so differs from every identifier
\* returned before whose file has been written.
C4_GeneratedUnusedInDirectory ==
    [][last'.op = "get_unique_image_id"
         => /\ \A n \in DOMAIN files : ~IsPrefix(last'.id, n)
            /\ \A c \in Clients :
                   (uploads[c].id # -1 /\ PngName(UuidStr(uploads[c].id)) \in DOMAIN files)
                       => UuidStr(uploads[c].id) # last'.id]_vars

\* C4 witness: an identifier was generated after an earlier upload's file
\* was written, in the directory that already held files under other names.
C4_Witness ==
    /\ last.op = "get_unique_image_id"
    /\ <<"1", "1", ".", "jpg">> \in DOMAIN files
    /\ \E c1, c2 \in Clients :
           /\ c1 # c2
           /\ uploads[c1].pc = "done" /\ uploads[c1].status = 200
           /\ PngName(UuidStr(uploads[c1].id)) \in DOMAIN files
           /\ uploads[c2].pc = "saving" /\ UuidStr(uploads[c2].id) = last.id

\* C5: a plain fetch of the identifier a successful upload returned answers
\* with that upload's image.
C5_FetchReturnsTheUpload ==
    \A c \in Clients :
        (/\ last.op = "get_image"
         /\ uploads[c].pc = "done" /\ uploads[c].status = 200
         /\ last.id = UuidStr(uploads[c].id))
            => (last.status = 200 /\ last.body.image = uploads[c].data.img)

\* C6: a rotation request whose direction is not 'L' or 'l' (an absent one
\* included) by d degrees answers with the image the counter-clockwise
\* request by (360 - d) mod 360 degrees produces.
C6_ClockwiseIsReversedCounterClockwise ==
    (/\ last.op = "get_rotated_image" /\ last.status = 200
     /\ last.direction \notin {"L", "l"})
        => last.body = ImageResponse(
               Transposed(Stored, NormalizedDegrees("L", (360 - last.degrees) % 360)))

\* C6 witness: an absent direction and a negative angle turned the image.
C6_Witness ==
    /\ last.op = "get_rotated_image" /\ last.status = 200
    /\ last.direction = "absent" /\ last.degrees = -90
    /\ last.body.image = Rotate90(Stored)
    /\ last.body.image # Stored

\* C7: a rotation request by a multiple of 360 degrees, in either
\* direction, answers with the stored image unchanged.
C7_FullTurnsAreNoOps ==
    (/\ last.op = "get_rotated_image" /\ last.status = 200
     /\ last.degrees % 360 = 0)
        => last.body = ImageResponse(Stored)

\* C7 witness: a clockwise request by 360 degrees on an image that a
\* quarter turn would change.
C7_Witness ==
    /\ last.op = "get_rotated_image" /\ last.status = 200
    /\ last.direction = "R" /\ last.degrees = 360
    /\ Rotate90(Stored) # Stored
    /\ last.body.image = Stored

\* C8: an error raised inside the with block of a fetch leaves the handler
\* as an unhandled error (a 500), never swallowed.
C8_BodyErrorsPropagate ==
    (last.op \in FetchOps /\ last.exc # "none") => last.status = 500

\* C9: a resize with the aspect ratio locked answers with an image no wider
\* and no higher than requested whose width:height ratio is the stored
\* image's up to the rounding of one side; with the ratio unlocked the
\* answer has exactly the requested size.
C9_ResizeBounds ==
    (last.op = "get_resized_image" /\ last.status = 200)
        => LET out == last.body.image
               W == Stored.w
               H == Stored.h
           IN IF last.lock
              THEN /\ out.w <= last.width /\ out.h <= last.height
                   /\ out.w >= 1 /\ out.h >= 1
                   /\ \/ Abs(out.h * W - out.w * H) < W
                      \/ Abs(out.w * H - out.h * W) < H
              ELSE out.w = last.width /\ out.h = last.height

\* C9 witness: 200 x 100 requested into 50 x 50 with the ratio locked gave
\* 50 x 25.
C9_Witness ==
    /\ last.op = "get_resized_image" /\ last.status = 200 /\ last.lock
    /\ Stored.w = 200 /\ Stored.h = 100
    /\ last.width = 50 /\ last.height = 50
    /\ last.body.image.w = 50 /\ last.body.image.h = 25

\* C10: no fetch request changes the storage directory, neither the set of
\* files nor the content of any file.
C10_FetchLeavesDirectory ==
    [][last'.op \in FetchOps => files' = files]_vars

\* C10 witness: a locked resize answered with a smaller image than the one
\* still stored.
C10_Witness ==
    /\ last.op = "get_resized_image" /\ last.status = 200 /\ last.lock
    /\ last.body.image # Stored
    /\ last.body.image.w < Stored.w

====
